---- MODULE Spec2Model ----
(***************************************************************************)
(* The threading engine of continuum (src/src/threading.ts): the           *)
(* assignment, lifecycle and merge loops of ThreadingEngine over the       *)
(* messages and threads tables of db/schema.sql.                           *)
(*                                                                         *)
(* Every awaited store statement or provider call is one step of the loop  *)
(* that makes it, so the loops of one engine (and of several engines)      *)
(* interleave exactly where the code awaits.  Time is counted in minutes.  *)
(* The store is PostgreSQL at READ COMMITTED: the writes of an open        *)
(* transaction stay private until COMMIT, a row it has updated stays       *)
(* locked until then, and a statement that needs a locked row waits.       *)
(***************************************************************************)
EXTENDS Integers, Sequences, FiniteSets, TLC

\* ------------------------------------------------------------------ bounds
MaxMessages == 2
MaxJumps == 2
MaxNewMessages == 1

\* --------------------------------------------------------------- constants
NULL == 0
ACTIVE_TO_COOLING_MINUTES == 30
COOLING_TO_ARCHIVED_HOURS == 72
MAX_ACTIVE_THREAD_CANDIDATES == 15
MAX_ARCHIVED_THREAD_CANDIDATES == 20
MergeCandidateCap == 16
AssignExcerptLimit == 6
RevivalExcerptLimit == 8
MergeExcerptLimit == 5
\* thresholds, in hundredths
AssignSimilarity == 26
RevivalSimilarity == 31
MergePairSimilarity == 58
MergeSimilarity == 78
AssignConfidence == 45
MergeConfidence == 60
RevivalConfidence == 62

\* The engine instances that share the store; Spec runs the first alone.
Engines == {"e1", "e2"}
SingleEngine == {"e1"}

\* Message contents, already tokenized: Tokens are words tokenize keeps.
Tokens == {"deploy", "lunch"}
Contents == {{"deploy"}, {"lunch"}}

\* The clock moves by a minute or by the archival threshold: a thread idle for
\* exactly the threshold is due for cooling and not yet for archival.
ClockJumps == {1, COOLING_TO_ARCHIVED_HOURS * 60}

\* Confidences a provider may report, in hundredths, around each threshold.
Confidences == {AssignConfidence - 1, AssignConfidence, MergeConfidence - 1,
                RevivalConfidence}

VARIABLES
  now,          \* NOW(), in minutes
  jumps,        \* how often the clock has moved
  aiEnabled,    \* AIDecider.enabled
  running,      \* running[e]: the process of engine e has not terminated
  messages,     \* the messages table: id -> row
  threads,      \* the threads table: id -> row
  busy,         \* busy[e][loop]: assignmentLoopBusy, lifecycleLoopBusy, mergeLoopBusy
  apc,          \* where engine e's assignment tick stands
  aloc,         \* the locals of processSinglePendingMessage
  lpc,          \* where engine e's lifecycle tick stands
  lcooled,      \* cooled.rows of the running lifecycle tick
  mpc,          \* where engine e's merge tick stands
  mloc,         \* the locals of mergeTick
  emitted       \* what the last step handed to RealtimeHub.broadcast, and the
                \* provider failure it logged before falling back

vars == <<now, jumps, aiEnabled, running, messages, threads, busy, apc, aloc, lpc,
          lcooled, mpc, mloc, emitted>>

\* ------------------------------------------------------------------ helpers
Max(a, b) == IF a >= b THEN a ELSE b
Min(a, b) == IF a <= b THEN a ELSE b

MsgIds == 1..Len(messages)
ThreadIds == 1..Len(threads)

RECURSIVE SetMax(_)
SetMax(S) ==
  IF S = {} THEN NULL
  ELSE LET x == CHOOSE y \in S : TRUE IN Max(x, SetMax(S \ {x}))

\* jaccard(a, b) as the pair <<intersection, union>>; <<0, 1>> when a set is empty.
jaccard(a, b) ==
  IF a = {} \/ b = {} THEN <<0, 1>>
  ELSE LET inter == Cardinality(a \cap b)
       IN <<inter, Cardinality(a) + Cardinality(b) - inter>>

\* score > other, score >= hundredths/100
ScoreGreater(s, o) == s[1] * o[2] > o[1] * s[2]
ScoreAtLeast(s, hundredths) == s[1] * 100 >= hundredths * s[2]

\* The messages of thread t in table ms.
MessagesOf(ms, t) == {m \in 1..Len(ms) : ms[m].thread_id = t}

\* LATERAL (... ORDER BY created_at DESC LIMIT k): the k latest messages of t.
RecentMessages(ms, t, k) ==
  {m \in MessagesOf(ms, t) :
     Cardinality({o \in MessagesOf(ms, t) :
        \/ ms[o].created_at > ms[m].created_at
        \/ ms[o].created_at = ms[m].created_at /\ o > m}) < k}

\* tokenize(`${title} ${recent_excerpt}`)
ThreadText(ms, ths, t, k) ==
  ths[t].title \cup UNION {ms[m].content : m \in RecentMessages(ms, t, k)}

\* ORDER BY COALESCE(last_message_at, updated_at) DESC LIMIT cap: every order of
\* the rows S that is descending in last_message_at (rows without one sort by
\* updated_at, which the model leaves open).
RankedOrders(ths, S, cap) ==
  LET n == Cardinality(S)
      sorted == {o \in [1..n -> S] :
                   /\ \A i, j \in 1..n : i # j => o[i] # o[j]
                   /\ \A i, j \in 1..n :
                        (i < j /\ ths[o[i]].last_message_at # NULL
                               /\ ths[o[j]].last_message_at # NULL)
                        => ths[o[i]].last_message_at >= ths[o[j]].last_message_at}
  IN {SubSeq(o, 1, Min(n, cap)) : o \in sorted}

\* A call of RealtimeHub.broadcast(type, payload).
Event(type, id, other, status) == <<type, id, other, status>>

\* console.error in the catch around a provider call ("... using heuristic").
FallbackLogged(call) == <<"console.error", NULL, NULL, call>>

Live(ths) == {t \in 1..Len(ths) : ths[t].state \in {"active", "cooling"}}
Archived(ths) == {t \in 1..Len(ths) : ths[t].state = "archived"}

\* ------------------------------------------------------------------ initial
NoLocals == [msg |-> NULL, action |-> "none", threadId |-> NULL, title |-> {},
             offered |-> {}, heuristic |-> NULL, revival |-> NULL, lock |-> NULL,
             failedAt |-> "none"]
NoMerge == [source |-> NULL, target |-> NULL, first |-> NULL, second |-> NULL,
            heuristic |-> FALSE, swap |-> FALSE, snapshot |-> NULL]

Init ==
  /\ now = 1
  /\ jumps = 0
  /\ aiEnabled \in BOOLEAN
  /\ running = [e \in Engines |-> TRUE]
  /\ messages = <<>>
  /\ threads = <<>>
  /\ busy = [e \in Engines |-> [assignment |-> FALSE, lifecycle |-> FALSE, merge |-> FALSE]]
  /\ apc = [e \in Engines |-> "idle"]
  /\ aloc = [e \in Engines |-> NoLocals]
  /\ lpc = [e \in Engines |-> "idle"]
  /\ lcooled = [e \in Engines |-> {}]
  /\ mpc = [e \in Engines |-> "idle"]
  /\ mloc = [e \in Engines |-> NoMerge]
  /\ emitted = {}

\* ------------------------------------------------------------ environment
\* POST /api/messages: INSERT ... VALUES ($1, $2, 'pending'), created_at NOW().
PostMessage(content, cap) ==
  /\ Len(messages) < cap
  /\ messages' = Append(messages, [created_at |-> now, content |-> content,
                                   thread_id |-> NULL, assignment_status |-> "pending"])
  /\ emitted' = {Event("message.created", Len(messages) + 1, NULL, "pending")}
  /\ UNCHANGED <<now, jumps, aiEnabled, running, threads, busy, apc, aloc, lpc, lcooled, mpc, mloc>>

\* Time passes.
Advance(d) ==
  /\ jumps < MaxJumps
  /\ now' = now + d
  /\ jumps' = jumps + 1
  /\ emitted' = {}
  /\ UNCHANGED <<aiEnabled, running, messages, threads, busy, apc, aloc, lpc, lcooled, mpc, mloc>>

\* ---------------------------------------------------------------- row locks
\* The thread row an open assignment transaction has updated and not committed.
AssignLocks(e) == IF apc[e] = "commit" /\ aloc[e].lock # NULL THEN {aloc[e].lock} ELSE {}
\* The source row a merge transaction holds while its target update waits.
MergeLocks(e) == IF mpc[e] = "wait" THEN {mloc[e].source} ELSE {}
\* Thread rows locked by a transaction other than e's assignment / e's merge.
LockedForAssign(e) ==
  UNION {AssignLocks(x) : x \in Engines \ {e}} \cup UNION {MergeLocks(x) : x \in Engines}
LockedForMerge(e) ==
  UNION {AssignLocks(x) : x \in Engines} \cup UNION {MergeLocks(x) : x \in Engines \ {e}}
LockedThreads == UNION {AssignLocks(x) \cup MergeLocks(x) : x \in Engines}
\* The claim's transaction left open until the message is processed.
ClaimLocksWhileProcessing(e) == IF apc[e] \notin {"idle", "claim"} THEN {aloc[e].msg} ELSE {}

\* Message rows locked FOR UPDATE by a claim that has not committed.
ClaimLocks(e) == IF apc[e] = "claimLocked" THEN {aloc[e].msg} ELSE {}
LockedMessages(e) == UNION {ClaimLocks(x) : x \in Engines \ {e}}

\* ---------------------------------------------------------- assignment loop
\* assignmentTick without the test of assignmentLoopBusy: every firing runs.
AssignmentTickReentrant(e) ==
  /\ running[e]
  /\ busy' = [busy EXCEPT ![e].assignment = TRUE]
  /\ apc' = [apc EXCEPT ![e] = "claim"]
  /\ emitted' = {}
  /\ UNCHANGED <<now, jumps, aiEnabled, running, messages, threads, aloc, lpc, lcooled, mpc, mloc>>

\* assignmentTick, lines 139-141: a firing that finds the loop busy returns.
AssignmentTick(e) ==
  /\ running[e]
  /\ ~busy[e].assignment
  /\ busy' = [busy EXCEPT ![e].assignment = TRUE]
  /\ apc' = [apc EXCEPT ![e] = "claim"]
  /\ emitted' = {}
  /\ UNCHANGED <<now, jumps, aiEnabled, running, messages, threads, aloc, lpc, lcooled, mpc, mloc>>

\* The claim's SELECT without FOR UPDATE SKIP LOCKED: a row another claim has
\* picked and not yet updated is returned again.
ClaimableIgnoringLocks(e) ==
  LET pending == {m \in MsgIds : messages[m].assignment_status = "pending"}
  IN {m \in pending : \A o \in pending : messages[m].created_at <= messages[o].created_at}

\* The claim's SELECT with ORDER BY created_at DESC: the newest pending row.
ClaimableNewestFirst(e) ==
  LET pending == {m \in MsgIds : messages[m].assignment_status = "pending"} \ LockedMessages(e)
  IN {m \in pending : \A o \in pending : messages[m].created_at >= messages[o].created_at}

\* The rows SELECT ... WHERE assignment_status = 'pending' ORDER BY created_at ASC
\* LIMIT 1 FOR UPDATE SKIP LOCKED may return to engine e.
ClaimableBy(e) ==
  LET pending == {m \in MsgIds : messages[m].assignment_status = "pending"} \ LockedMessages(e)
  IN {m \in pending : \A o \in pending : messages[m].created_at <= messages[o].created_at}

\* claimPendingMessage, BEGIN and the SELECT: the picked row is locked, or there is
\* none and processSinglePendingMessage returns false, which ends the tick.
ClaimSelect(e) ==
  /\ apc[e] = "claim"
  /\ IF ClaimableBy(e) = {}
     THEN /\ apc' = [apc EXCEPT ![e] = "idle"]
          /\ busy' = [busy EXCEPT ![e].assignment = FALSE]
          /\ aloc' = aloc
     ELSE /\ \E m \in ClaimableBy(e) : aloc' = [aloc EXCEPT ![e] = [NoLocals EXCEPT !.msg = m]]
          /\ apc' = [apc EXCEPT ![e] = "claimLocked"]
          /\ busy' = busy
  /\ emitted' = {}
  /\ UNCHANGED <<now, jumps, aiEnabled, running, messages, threads, lpc, lcooled, mpc, mloc>>

\* claimPendingMessage, the UPDATE to in_progress and COMMIT.
ClaimUpdate(e) ==
  /\ apc[e] = "claimLocked"
  /\ messages' = [messages EXCEPT ![aloc[e].msg].assignment_status = "in_progress"]
  /\ apc' = [apc EXCEPT ![e] = "fetch"]
  /\ emitted' = {}
  /\ UNCHANGED <<now, jumps, aiEnabled, running, threads, busy, aloc, lpc, lcooled, mpc, mloc>>

\* A store error inside claimPendingMessage: ROLLBACK, and the error leaves
\* processSinglePendingMessage and the while loop; finally clears the busy flag.
ClaimFails(e) ==
  /\ apc[e] \in {"claim", "claimLocked"}
  /\ apc' = [apc EXCEPT ![e] = "idle"]
  /\ aloc' = [aloc EXCEPT ![e] = NoLocals]
  /\ busy' = [busy EXCEPT ![e].assignment = FALSE]
  /\ emitted' = {}
  /\ UNCHANGED <<now, jumps, aiEnabled, running, messages, threads, lpc, lcooled, mpc, mloc>>

\* The loop with score >= best.score: on equal scores the later candidate wins.
RECURSIVE BestIndexLast(_, _, _)
BestIndexLast(scores, i, best) ==
  IF i > Len(scores) THEN best
  ELSE BestIndexLast(scores, i + 1,
         IF best = NULL \/ ~ScoreGreater(scores[best], scores[i]) THEN i ELSE best)

\* The loop of fallbackAssignment and findRevivalSource over the candidates'
\* scores: a later candidate replaces best only with a strictly greater score.
RECURSIVE BestIndex(_, _, _)
BestIndex(scores, i, best) ==
  IF i > Len(scores) THEN best
  ELSE BestIndex(scores, i + 1,
         IF best = NULL \/ ScoreGreater(scores[i], scores[best]) THEN i ELSE best)

\* The id the heuristic picks among cands (a sequence of thread ids) for content,
\* or NULL when the best score is below the threshold.
HeuristicMatch(content, cands, limit, threshold) ==
  LET scores == [i \in 1..Len(cands) |->
                   jaccard(content, ThreadText(messages, threads, cands[i], limit))]
      best == BestIndex(scores, 1, NULL)
  IN IF best # NULL /\ ScoreAtLeast(scores[best], threshold) THEN cands[best] ELSE NULL

\* fallbackAssignment: the thread to assign to, NULL for create.
fallbackAssignment(content, cands) ==
  HeuristicMatch(content, cands, AssignExcerptLimit, AssignSimilarity)

\* The heuristic half of findRevivalSource.
heuristicRevival(content, cands) ==
  HeuristicMatch(content, cands, RevivalExcerptLimit, RevivalSimilarity)

Range(f) == {f[i] : i \in DOMAIN f}

\* The decision is taken and findRevivalSource runs whatever the action.
DecidedAlwaysRevives(e, threadId, title) ==
  /\ aloc' = [aloc EXCEPT ![e].action = IF threadId = NULL THEN "create" ELSE "assign",
                          ![e].threadId = threadId,
                          ![e].title = IF threadId = NULL THEN title ELSE {},
                          ![e].offered = {},
                          ![e].heuristic = NULL]
  /\ apc' = [apc EXCEPT ![e] = "revival"]

\* The decision is taken: findRevivalSource runs only for create.
Decided(e, threadId, title) ==
  /\ aloc' = [aloc EXCEPT ![e].action = IF threadId = NULL THEN "create" ELSE "assign",
                          ![e].threadId = threadId,
                          ![e].title = IF threadId = NULL THEN title ELSE {},
                          ![e].offered = {},
                          ![e].heuristic = NULL]
  /\ apc' = [apc EXCEPT ![e] = IF threadId = NULL THEN "revival" ELSE "apply"]

\* The decision without the candidates.length === 0 branch: the provider is
\* asked also about an empty candidate list.
FetchCandidatesAlwaysAsking(e) ==
  /\ apc[e] = "fetch"
  /\ LET content == messages[aloc[e].msg].content IN
     \E cands \in RankedOrders(threads, Live(threads), MAX_ACTIVE_THREAD_CANDIDATES) :
       IF aiEnabled
       THEN /\ aloc' = [aloc EXCEPT ![e].offered = Range(cands),
                                    ![e].heuristic = fallbackAssignment(content, cands)]
            /\ apc' = [apc EXCEPT ![e] = "aiAssign"]
       ELSE Decided(e, fallbackAssignment(content, cands), content)
  /\ emitted' = {}
  /\ UNCHANGED <<now, jumps, aiEnabled, running, messages, threads, busy, lpc, lcooled, mpc, mloc>>

\* processSinglePendingMessage, lines 322-343 up to the provider call:
\* fetchActiveThreadCandidates, then the decision when no provider is asked.
FetchCandidates(e) ==
  /\ apc[e] = "fetch"
  /\ LET content == messages[aloc[e].msg].content IN
     \E cands \in RankedOrders(threads, Live(threads), MAX_ACTIVE_THREAD_CANDIDATES) :
       IF Len(cands) = 0 THEN Decided(e, NULL, content)
       ELSE IF aiEnabled
       THEN /\ aloc' = [aloc EXCEPT ![e].offered = Range(cands),
                                    ![e].heuristic = fallbackAssignment(content, cands)]
            /\ apc' = [apc EXCEPT ![e] = "aiAssign"]
       ELSE Decided(e, fallbackAssignment(content, cands), content)
  /\ emitted' = {}
  /\ UNCHANGED <<now, jumps, aiEnabled, running, messages, threads, busy, lpc, lcooled, mpc, mloc>>

\* normalizeAssignmentDecision without candidateIds.has(decision.threadId).
normalizeWithoutOffered(action, threadId, confidence, offered) ==
  IF /\ action = "assign"
     /\ threadId # NULL
     /\ confidence >= AssignConfidence
  THEN threadId
  ELSE NULL

\* normalizeAssignmentDecision: the thread id of an accepted assign, else NULL.
normalizeAssignmentDecision(action, threadId, confidence, offered) ==
  IF /\ action = "assign"
     /\ threadId # NULL
     /\ threadId \in offered
     /\ confidence >= AssignConfidence
  THEN threadId
  ELSE NULL

\* ai.decideAssignment answers (any action, any thread id, any confidence, with
\* or without a title) and the answer is normalized ...
AIAssignAnswers(e) ==
  /\ apc[e] = "aiAssign"
  /\ \E action \in {"assign", "create"}, threadId \in 0..Len(threads),
        confidence \in Confidences, title \in Contents :
       Decided(e, normalizeAssignmentDecision(action, threadId, confidence, aloc[e].offered),
               title)
  /\ emitted' = {}
  /\ UNCHANGED <<now, jumps, aiEnabled, running, messages, threads, busy, lpc, lcooled, mpc, mloc>>

\* The catch around ai.decideAssignment logging and rethrowing: the error
\* reaches the catch of line 372.
AIAssignRethrows(e) ==
  /\ apc[e] = "aiAssign"
  /\ aloc' = [aloc EXCEPT ![e] = [NoLocals EXCEPT !.msg = aloc[e].msg,
                                                  !.failedAt = apc[e]]]
  /\ apc' = [apc EXCEPT ![e] = "fail"]
  /\ emitted' = {FallbackLogged("decideAssignment")}
  /\ UNCHANGED <<now, jumps, aiEnabled, running, messages, threads, busy, lpc, lcooled, mpc, mloc>>

\* ... or it throws and fallbackAssignment decides on the fetched candidates.
AIAssignFails(e) ==
  /\ apc[e] = "aiAssign"
  /\ Decided(e, aloc[e].heuristic, messages[aloc[e].msg].content)
  /\ emitted' = {FallbackLogged("decideAssignment")}
  /\ UNCHANGED <<now, jumps, aiEnabled, running, messages, threads, busy, lpc, lcooled, mpc, mloc>>

\* findRevivalSource, lines 501-529 and 554-568: the archived candidates, then
\* the heuristic when no provider is asked.
FindRevival(e) ==
  /\ apc[e] = "revival"
  /\ LET content == messages[aloc[e].msg].content IN
     \E cands \in RankedOrders(threads, Archived(threads), MAX_ARCHIVED_THREAD_CANDIDATES) :
       IF Len(cands) = 0
       THEN /\ aloc' = [aloc EXCEPT ![e].revival = NULL]
            /\ apc' = [apc EXCEPT ![e] = "apply"]
       ELSE IF aiEnabled
       THEN /\ aloc' = [aloc EXCEPT ![e].offered = Range(cands),
                                    ![e].heuristic = heuristicRevival(content, cands)]
            /\ apc' = [apc EXCEPT ![e] = "aiRevival"]
       ELSE /\ aloc' = [aloc EXCEPT ![e].revival = heuristicRevival(content, cands)]
            /\ apc' = [apc EXCEPT ![e] = "apply"]
  /\ emitted' = {}
  /\ UNCHANGED <<now, jumps, aiEnabled, running, messages, threads, busy, lpc, lcooled, mpc, mloc>>

\* findRevivalSource, lines 540-548: an answer is returned only when it passes;
\* otherwise control falls through to the heuristic below the try.
acceptRevival(archivedThreadId, confidence, offered, heuristic) ==
  IF /\ archivedThreadId # NULL
     /\ confidence >= RevivalConfidence
     /\ archivedThreadId \in offered
  THEN archivedThreadId
  ELSE heuristic

AIRevivalAnswers(e) ==
  /\ apc[e] = "aiRevival"
  /\ \E archivedThreadId \in 0..Len(threads), confidence \in Confidences :
       aloc' = [aloc EXCEPT ![e].revival = acceptRevival(archivedThreadId, confidence,
                                                         aloc[e].offered, aloc[e].heuristic),
                            ![e].offered = {},
                            ![e].heuristic = NULL]
  /\ apc' = [apc EXCEPT ![e] = "apply"]
  /\ emitted' = {}
  /\ UNCHANGED <<now, jumps, aiEnabled, running, messages, threads, busy, lpc, lcooled, mpc, mloc>>

AIRevivalFails(e) ==
  /\ apc[e] = "aiRevival"
  /\ aloc' = [aloc EXCEPT ![e].revival = aloc[e].heuristic,
                          ![e].offered = {},
                          ![e].heuristic = NULL]
  /\ apc' = [apc EXCEPT ![e] = "apply"]
  /\ emitted' = {FallbackLogged("decideRevivalLink")}
  /\ UNCHANGED <<now, jumps, aiEnabled, running, messages, threads, busy, lpc, lcooled, mpc, mloc>>

\* ------------------------------------------------------- applyAssignment
\* The revival UPDATE without AND state = 'archived': it matches the revival
\* source whatever its state.
RowNeededAnyState(e) ==
  IF aloc[e].action = "create" THEN aloc[e].revival ELSE aloc[e].threadId

\* The existing thread row the transaction updates, which it must find unlocked:
\* the archived revival source of a create (the UPDATE ... AND state = 'archived'
\* matches no row otherwise), or the destination of an assign.
RowNeeded(e) ==
  IF aloc[e].action = "create"
  THEN IF aloc[e].revival # NULL /\ threads[aloc[e].revival].state = "archived"
       THEN aloc[e].revival ELSE NULL
  ELSE aloc[e].threadId

\* applyAssignment from BEGIN to the last UPDATE: the statements run, their
\* writes private to the transaction, the row they updated locked.
ApplyExec(e) ==
  /\ apc[e] = "apply"
  /\ RowNeeded(e) \notin LockedForAssign(e)
  /\ aloc' = [aloc EXCEPT ![e].lock = RowNeeded(e)]
  /\ apc' = [apc EXCEPT ![e] = "commit"]
  /\ emitted' = {}
  /\ UNCHANGED <<now, jumps, aiEnabled, running, messages, threads, busy, lpc, lcooled, mpc, mloc>>

NewThread(title, at) ==
  [state |-> "active", title |-> title, last_message_at |-> at,
   archived_at |-> NULL, superseded_at |-> NULL, revives_thread_id |-> NULL,
   continued_in_thread_id |-> NULL, merged_into_thread_id |-> NULL]

\* lines 604-631, the revival link: old is superseded and points at new, and
\* new points back, when the conditional UPDATE returned the old row.
RevivalLinked(ths, old, new, at) ==
  [ths EXCEPT ![old].state = "superseded",
              ![old].superseded_at = at,
              ![old].continued_in_thread_id = new,
              ![new].revives_thread_id = old]

\* The destination update with last_message_at = $2 in place of GREATEST.
DestinationUpdatedOverwriting(ths, dest, createdAt) ==
  [ths EXCEPT ![dest].state = IF @ = "cooling" THEN "active" ELSE @,
              ![dest].last_message_at = createdAt]

\* lines 649-661, the destination update: no guard on the row's state.
DestinationUpdated(ths, dest, createdAt) ==
  [ths EXCEPT ![dest].state = IF @ = "cooling" THEN "active" ELSE @,
              ![dest].last_message_at =
                 Max(IF @ = NULL THEN createdAt ELSE @, createdAt)]

\* The thread the transaction of engine e attaches its message to.
Destination(e) == IF aloc[e].action = "create" THEN Len(threads) + 1 ELSE aloc[e].threadId
Linked(e) == aloc[e].action = "create" /\ aloc[e].lock # NULL

\* The threads table as the transaction of engine e commits it.
AppliedThreads(e) ==
  LET createdAt == messages[aloc[e].msg].created_at
      inserted == IF aloc[e].action = "create"
                  THEN Append(threads, NewThread(aloc[e].title, createdAt))
                  ELSE threads
      linked == IF Linked(e)
                THEN RevivalLinked(inserted, aloc[e].lock, Destination(e), now)
                ELSE inserted
  IN DestinationUpdated(linked, Destination(e), createdAt)

\* lines 638-647
AppliedMessages(e) ==
  [messages EXCEPT ![aloc[e].msg].thread_id = Destination(e),
                   ![aloc[e].msg].assignment_status = "assigned"]

\* lines 352-369, the broadcasts after applyAssignment returned, in order.
AssignmentBroadcasts(e) ==
  <<Event("message.updated", aloc[e].msg, Destination(e), "assigned")>>
  \o (IF aloc[e].action = "create"
      THEN <<Event("thread.created", Destination(e), NULL, "")>> ELSE <<>>)
  \o <<Event("thread.updated", Destination(e), NULL, "")>>
  \o (IF Linked(e)
      THEN <<Event("thread.updated", aloc[e].lock, NULL, ""),
             Event("thread.updated", Destination(e), NULL, "")>>
      ELSE <<>>)

\* COMMIT, the broadcasts, return true: the drain goes on to the next claim.
ApplyCommit(e) ==
  /\ apc[e] = "commit"
  /\ threads' = AppliedThreads(e)
  /\ messages' = AppliedMessages(e)
  /\ emitted' = Range(AssignmentBroadcasts(e))
  /\ aloc' = [aloc EXCEPT ![e] = NoLocals]
  /\ apc' = [apc EXCEPT ![e] = "claim"]
  /\ UNCHANGED <<now, jumps, aiEnabled, running, busy, lpc, lcooled, mpc, mloc>>

\* COMMIT succeeds and a broadcast then throws: the calls of lines 352-369 stand
\* inside the try, so the error is caught by the catch of line 372.
ApplyCommitBroadcastThrows(e) ==
  /\ apc[e] = "commit"
  /\ threads' = AppliedThreads(e)
  /\ messages' = AppliedMessages(e)
  /\ \E k \in 0..(Len(AssignmentBroadcasts(e)) - 1) :
       emitted' = Range(SubSeq(AssignmentBroadcasts(e), 1, k))
  /\ aloc' = [aloc EXCEPT ![e] = [NoLocals EXCEPT !.msg = aloc[e].msg,
                                                  !.failedAt = "broadcast"]]
  /\ apc' = [apc EXCEPT ![e] = "fail"]
  /\ UNCHANGED <<now, jumps, aiEnabled, running, busy, lpc, lcooled, mpc, mloc>>

\* The broadcasts of lines 352-369 issued before COMMIT: a transaction that
\* then fails has already sent them.
ProcessingFailsAfterBroadcast(e) ==
  /\ apc[e] \in {"fetch", "revival", "apply", "commit"}
  /\ aloc' = [aloc EXCEPT ![e] = [NoLocals EXCEPT !.msg = aloc[e].msg,
                                                  !.failedAt = apc[e]]]
  /\ apc' = [apc EXCEPT ![e] = "fail"]
  /\ emitted' = IF apc[e] = "commit" THEN Range(AssignmentBroadcasts(e)) ELSE {}
  /\ UNCHANGED <<now, jumps, aiEnabled, running, messages, threads, busy, lpc, lcooled, mpc, mloc>>

\* A store statement of the try block throws (fetchActiveThreadCandidates, the
\* query of findRevivalSource, or a statement of applyAssignment, which rolls
\* its transaction back and rethrows): control reaches the catch of line 372.
ProcessingFails(e) ==
  /\ apc[e] \in {"fetch", "revival", "apply", "commit"}
  /\ aloc' = [aloc EXCEPT ![e] = [NoLocals EXCEPT !.msg = aloc[e].msg,
                                                  !.failedAt = apc[e]]]
  /\ apc' = [apc EXCEPT ![e] = "fail"]
  /\ emitted' = {}
  /\ UNCHANGED <<now, jumps, aiEnabled, running, messages, threads, busy, lpc, lcooled, mpc, mloc>>

\* The UPDATE of the catch block also clearing thread_id.
MarkFailedClearingThread(e) ==
  /\ apc[e] = "fail"
  /\ messages' = [messages EXCEPT ![aloc[e].msg].assignment_status = "failed",
                                  ![aloc[e].msg].thread_id = NULL]
  /\ emitted' = {Event("message.updated", aloc[e].msg, NULL, "failed")}
  /\ aloc' = [aloc EXCEPT ![e] = NoLocals]
  /\ apc' = [apc EXCEPT ![e] = "claim"]
  /\ UNCHANGED <<now, jumps, aiEnabled, running, threads, busy, lpc, lcooled, mpc, mloc>>

\* lines 374-388: UPDATE messages SET assignment_status = 'failed' WHERE id = $1,
\* the broadcast, return true.
MarkFailed(e) ==
  /\ apc[e] = "fail"
  /\ messages' = [messages EXCEPT ![aloc[e].msg].assignment_status = "failed"]
  /\ emitted' = {Event("message.updated", aloc[e].msg, NULL, "failed")}
  /\ aloc' = [aloc EXCEPT ![e] = NoLocals]
  /\ apc' = [apc EXCEPT ![e] = "claim"]
  /\ UNCHANGED <<now, jumps, aiEnabled, running, threads, busy, lpc, lcooled, mpc, mloc>>

\* The UPDATE of the catch block throws: nothing catches it, the error leaves
\* the while loop and assignmentTick, whose finally clears the busy flag.
MarkFailedFails(e) ==
  /\ apc[e] = "fail"
  /\ aloc' = [aloc EXCEPT ![e] = NoLocals]
  /\ apc' = [apc EXCEPT ![e] = "idle"]
  /\ busy' = [busy EXCEPT ![e].assignment = FALSE]
  /\ emitted' = {}
  /\ UNCHANGED <<now, jumps, aiEnabled, running, messages, threads, lpc, lcooled, mpc, mloc>>

\* The error that ends the tick in ClaimFails and MarkFailedFails rejects the
\* promise of assignmentTick, which has no catch and is started with void
\* (lines 129-136, 142-147): an unhandled rejection.  Node 15 and later
\* terminate the process on it unless started with --unhandled-rejections=warn.
\* ClaimFails and MarkFailedFails are the process running on; this is the
\* process terminating: its three timers are gone with it, its connections
\* close and the store rolls back whatever its merge transaction held.
UnhandledRejectionExits(e) ==
  /\ apc[e] \in {"claim", "claimLocked", "fail"}
  /\ running' = [running EXCEPT ![e] = FALSE]
  /\ busy' = [busy EXCEPT ![e] = [assignment |-> FALSE, lifecycle |-> FALSE, merge |-> FALSE]]
  /\ apc' = [apc EXCEPT ![e] = "idle"]
  /\ aloc' = [aloc EXCEPT ![e] = NoLocals]
  /\ lpc' = [lpc EXCEPT ![e] = "idle"]
  /\ lcooled' = [lcooled EXCEPT ![e] = {}]
  /\ mpc' = [mpc EXCEPT ![e] = "idle"]
  /\ mloc' = [mloc EXCEPT ![e] = NoMerge]
  /\ emitted' = {}
  /\ UNCHANGED <<now, jumps, aiEnabled, messages, threads>>

\* ----------------------------------------------------------- lifecycle loop
LifecycleTick(e) ==
  /\ running[e]
  /\ ~busy[e].lifecycle
  /\ busy' = [busy EXCEPT ![e].lifecycle = TRUE]
  /\ lpc' = [lpc EXCEPT ![e] = "cool"]
  /\ emitted' = {}
  /\ UNCHANGED <<now, jumps, aiEnabled, running, messages, threads, apc, aloc, lcooled, mpc, mloc>>

\* The first UPDATE without its state = 'active' condition.
CoolingAnyState(ths, t) ==
  {x \in 1..Len(ths) : /\ ths[x].last_message_at # NULL
                       /\ ths[x].last_message_at < t - ACTIVE_TO_COOLING_MINUTES}

\* The rows of the first UPDATE of lifecycleTick (lines 154-165) at time t.
Cooling(ths, t) ==
  {x \in 1..Len(ths) : /\ ths[x].state = "active"
                       /\ ths[x].last_message_at # NULL
                       /\ ths[x].last_message_at < t - ACTIVE_TO_COOLING_MINUTES}

CoolThreads(ths, t) ==
  [x \in 1..Len(ths) |-> IF x \in Cooling(ths, t) THEN [ths[x] EXCEPT !.state = "cooling"]
                         ELSE ths[x]]

\* The second UPDATE without its state = 'cooling' condition.
ArchivingAnyState(ths, t) ==
  {x \in 1..Len(ths) : /\ ths[x].last_message_at # NULL
                       /\ ths[x].last_message_at < t - COOLING_TO_ARCHIVED_HOURS * 60}

\* The second UPDATE with AND archived_at IS NULL added: a thread is archived
\* once.
ArchivingOnce(ths, t) ==
  {x \in 1..Len(ths) : /\ ths[x].state = "cooling"
                       /\ ths[x].archived_at = NULL
                       /\ ths[x].last_message_at # NULL
                       /\ ths[x].last_message_at < t - COOLING_TO_ARCHIVED_HOURS * 60}

\* The rows of the second UPDATE (lines 167-179) at time t.
Archiving(ths, t) ==
  {x \in 1..Len(ths) : /\ ths[x].state = "cooling"
                       /\ ths[x].last_message_at # NULL
                       /\ ths[x].last_message_at < t - COOLING_TO_ARCHIVED_HOURS * 60}

ArchiveThreads(ths, t) ==
  [x \in 1..Len(ths) |->
     IF x \in Archiving(ths, t)
     THEN [ths[x] EXCEPT !.state = "archived",
                         !.archived_at = IF @ = NULL THEN t ELSE @]
     ELSE ths[x]]

\* The first UPDATE; it waits for a row another transaction holds.
LifecycleCool(e) ==
  /\ lpc[e] = "cool"
  /\ Cooling(threads, now) \cap LockedThreads = {}
  /\ threads' = CoolThreads(threads, now)
  /\ lcooled' = [lcooled EXCEPT ![e] = Cooling(threads, now)]
  /\ lpc' = [lpc EXCEPT ![e] = "archive"]
  /\ emitted' = {}
  /\ UNCHANGED <<now, jumps, aiEnabled, running, messages, busy, apc, aloc, mpc, mloc>>

\* The second UPDATE, the broadcasts for both sets of rows, and finally.
LifecycleArchive(e) ==
  /\ lpc[e] = "archive"
  /\ Archiving(threads, now) \cap LockedThreads = {}
  /\ threads' = ArchiveThreads(threads, now)
  /\ emitted' = {Event("thread.updated", x, NULL, "") :
                   x \in lcooled[e] \cup Archiving(threads, now)}
  /\ lcooled' = [lcooled EXCEPT ![e] = {}]
  /\ lpc' = [lpc EXCEPT ![e] = "idle"]
  /\ busy' = [busy EXCEPT ![e].lifecycle = FALSE]
  /\ UNCHANGED <<now, jumps, aiEnabled, running, messages, apc, aloc, mpc, mloc>>

\* A store error in either UPDATE: caught and logged (line 187), finally.
LifecycleFails(e) ==
  /\ lpc[e] \in {"cool", "archive"}
  /\ lcooled' = [lcooled EXCEPT ![e] = {}]
  /\ lpc' = [lpc EXCEPT ![e] = "idle"]
  /\ busy' = [busy EXCEPT ![e].lifecycle = FALSE]
  /\ emitted' = {}
  /\ UNCHANGED <<now, jumps, aiEnabled, running, messages, threads, apc, aloc, mpc, mloc>>

\* --------------------------------------------------------------- merge loop
MergeTick(e) ==
  /\ running[e]
  /\ ~busy[e].merge
  /\ busy' = [busy EXCEPT ![e].merge = TRUE]
  /\ mpc' = [mpc EXCEPT ![e] = "fetch"]
  /\ emitted' = {}
  /\ UNCHANGED <<now, jumps, aiEnabled, running, messages, threads, apc, aloc, lpc, lcooled, mloc>>

\* The index pairs i < j of findMergePair's two loops, in the order it visits them.
PairSeq(n) ==
  LET pairs == {p \in (1..n) \X (1..n) : p[1] < p[2]}
      Before(p, q) == p[1] < q[1] \/ (p[1] = q[1] /\ p[2] < q[2])
  IN [k \in 1..Cardinality(pairs) |->
        CHOOSE p \in pairs : Cardinality({q \in pairs : Before(q, p)}) = k - 1]

\* findMergePair: the first pair with the greatest score as <<first, second,
\* score>>, or <<>> when that score is below 0.58.
findMergePair(cands) ==
  LET pairs == PairSeq(Len(cands))
      text(i) == ThreadText(messages, threads, cands[i], MergeExcerptLimit)
      scores == [k \in 1..Len(pairs) |-> jaccard(text(pairs[k][1]), text(pairs[k][2]))]
      best == BestIndex(scores, 1, NULL)
  IN IF best = NULL \/ ~ScoreAtLeast(scores[best], MergePairSimilarity) THEN <<>>
     ELSE <<cands[pairs[best][1]], cands[pairs[best][2]], scores[best]>>

\* The tick returns before its transaction.
MergeReturns(e) ==
  /\ mpc' = [mpc EXCEPT ![e] = "idle"]
  /\ mloc' = [mloc EXCEPT ![e] = NoMerge]
  /\ busy' = [busy EXCEPT ![e].merge = FALSE]

\* The resolution without the validIds check of lines 223-227: the provider's
\* ids stand as returned.
ResolveUnchecked(e, shouldMerge, sourceThreadId, targetThreadId, first, second, swap) ==
  IF sourceThreadId = targetThreadId \/ ~shouldMerge
  THEN MergeReturns(e)
  ELSE /\ mloc' = [mloc EXCEPT ![e] = [NoMerge EXCEPT
                     !.source = IF swap THEN targetThreadId ELSE sourceThreadId,
                     !.target = IF swap THEN sourceThreadId ELSE targetThreadId]]
       /\ mpc' = [mpc EXCEPT ![e] = "tx"]
       /\ busy' = busy

\* lines 223-241: ids outside the pair are replaced by the pair's, equal ids
\* cancel the merge, and the ids are swapped when pair.source is the more recent.
Resolve(e, shouldMerge, sourceThreadId, targetThreadId, first, second, swap) ==
  LET valid == sourceThreadId \in {first, second} /\ targetThreadId \in {first, second}
      src == IF valid THEN sourceThreadId ELSE first
      tgt == IF valid THEN targetThreadId ELSE second
  IN IF src = tgt \/ ~shouldMerge
     THEN MergeReturns(e)
     ELSE /\ mloc' = [mloc EXCEPT ![e] = [NoMerge EXCEPT !.source = IF swap THEN tgt ELSE src,
                                                         !.target = IF swap THEN src ELSE tgt]]
          /\ mpc' = [mpc EXCEPT ![e] = "tx"]
          /\ busy' = busy

\* lines 198-221 up to the provider call.
MergeFetch(e) ==
  /\ mpc[e] = "fetch"
  /\ \E cands \in RankedOrders(threads, Live(threads), MergeCandidateCap) :
       LET pair == IF Len(cands) < 2 THEN <<>> ELSE findMergePair(cands) IN
       IF pair = <<>> THEN MergeReturns(e)
       ELSE LET heuristic == ScoreAtLeast(pair[3], MergeSimilarity)
                swap == threads[pair[1]].last_message_at > threads[pair[2]].last_message_at
            IN IF aiEnabled
               THEN /\ mloc' = [mloc EXCEPT ![e] = [NoMerge EXCEPT !.first = pair[1],
                                                                   !.second = pair[2],
                                                                   !.heuristic = heuristic,
                                                                   !.swap = swap]]
                    /\ mpc' = [mpc EXCEPT ![e] = "ai"]
                    /\ busy' = busy
               ELSE Resolve(e, heuristic, pair[1], pair[2], pair[1], pair[2], swap)
  /\ emitted' = {}
  /\ UNCHANGED <<now, jumps, aiEnabled, running, messages, threads, apc, aloc, lpc, lcooled>>

\* ai.decideMerge answers: its shouldMerge and ids replace the heuristic's.
MergeAIAnswers(e) ==
  /\ mpc[e] = "ai"
  /\ \E shouldMerge \in BOOLEAN, confidence \in Confidences :
       IF shouldMerge /\ confidence >= MergeConfidence
       THEN \E sourceThreadId \in 0..Len(threads), targetThreadId \in 0..Len(threads) :
              Resolve(e, TRUE, sourceThreadId, targetThreadId,
                      mloc[e].first, mloc[e].second, mloc[e].swap)
       ELSE Resolve(e, FALSE, mloc[e].first, mloc[e].second,
                    mloc[e].first, mloc[e].second, mloc[e].swap)
  /\ emitted' = {}
  /\ UNCHANGED <<now, jumps, aiEnabled, running, messages, threads, apc, aloc, lpc, lcooled>>

\* ai.decideMerge throws: the heuristic values stand.
MergeAIFails(e) ==
  /\ mpc[e] = "ai"
  /\ Resolve(e, mloc[e].heuristic, mloc[e].first, mloc[e].second,
             mloc[e].first, mloc[e].second, mloc[e].swap)
  /\ emitted' = {FallbackLogged("decideMerge")}
  /\ UNCHANGED <<now, jumps, aiEnabled, running, messages, threads, apc, aloc, lpc, lcooled>>

\* SELECT MAX(created_at) FROM messages WHERE thread_id = target, as the
\* transaction sees it after repointing the source's messages.
CombinedMax(ms, source, target) ==
  SetMax({ms[m].created_at : m \in MessagesOf(ms, source) \cup MessagesOf(ms, target)})

\* lines 247-286 as committed: the source superseded, the target active with
\* the recomputed last_message_at.  No guard on the target's state.
MergedThreads(ths, source, target, lastMessageAt, at) ==
  [ths EXCEPT ![source].state = "superseded",
              ![source].merged_into_thread_id = target,
              ![source].superseded_at = at,
              ![target].state = "active",
              ![target].last_message_at = lastMessageAt]

\* lines 266-273
MergedMessages(ms, source, target) ==
  [m \in 1..Len(ms) |-> IF ms[m].thread_id = source
                        THEN [ms[m] EXCEPT !.thread_id = target] ELSE ms[m]]

MergeBroadcasts(source, target) ==
  {Event("thread.merged", source, target, ""), Event("thread.updated", source, NULL, ""),
   Event("thread.updated", target, NULL, "")}

MergeCommits(e, lastMessageAt) ==
  /\ threads' = MergedThreads(threads, mloc[e].source, mloc[e].target, lastMessageAt, now)
  /\ messages' = MergedMessages(messages, mloc[e].source, mloc[e].target)
  /\ emitted' = MergeBroadcasts(mloc[e].source, mloc[e].target)
  /\ MergeReturns(e)

\* The transaction without AND state IN ('active', 'cooling') on its first
\* UPDATE: the source is superseded whatever its state.
MergeExecAnySource(e) ==
  /\ mpc[e] = "tx"
  /\ mloc[e].source \notin LockedForMerge(e)
  /\ IF mloc[e].target \in LockedForMerge(e)
     THEN /\ mloc' = [mloc EXCEPT ![e].snapshot =
                        CombinedMax(messages, mloc[e].source, mloc[e].target)]
          /\ mpc' = [mpc EXCEPT ![e] = "wait"]
          /\ emitted' = {}
          /\ UNCHANGED <<messages, threads, busy>>
     ELSE MergeCommits(e, CombinedMax(messages, mloc[e].source, mloc[e].target))
  /\ UNCHANGED <<now, jumps, aiEnabled, running, apc, aloc, lpc, lcooled>>

\* The transaction of mergeTick.  Its first UPDATE waits for the source row; a
\* source that is no longer active or cooling ends it with ROLLBACK.  Its last
\* UPDATE evaluates the MAX subquery on the statement's snapshot and then needs
\* the target row: if another transaction holds it, the statement waits and,
\* at READ COMMITTED, completes on the new row version with the MAX it already
\* read.
MergeExec(e) ==
  /\ mpc[e] = "tx"
  /\ mloc[e].source \notin LockedForMerge(e)
  /\ IF threads[mloc[e].source].state \notin {"active", "cooling"}
     THEN /\ MergeReturns(e)
          /\ emitted' = {}
          /\ UNCHANGED <<messages, threads>>
     ELSE IF mloc[e].target \in LockedForMerge(e)
     THEN /\ mloc' = [mloc EXCEPT ![e].snapshot =
                        CombinedMax(messages, mloc[e].source, mloc[e].target)]
          /\ mpc' = [mpc EXCEPT ![e] = "wait"]
          /\ emitted' = {}
          /\ UNCHANGED <<messages, threads, busy>>
     ELSE MergeCommits(e, CombinedMax(messages, mloc[e].source, mloc[e].target))
  /\ UNCHANGED <<now, jumps, aiEnabled, running, apc, aloc, lpc, lcooled>>

\* The waiting target update goes through once the row is released; COMMIT.
MergeFinish(e) ==
  /\ mpc[e] = "wait"
  /\ mloc[e].target \notin LockedForMerge(e)
  /\ MergeCommits(e, mloc[e].snapshot)
  /\ UNCHANGED <<now, jumps, aiEnabled, running, apc, aloc, lpc, lcooled>>

\* A store error in mergeTick (the candidate query, a statement of the
\* transaction, a deadlock): ROLLBACK, caught and logged (line 302), finally.
MergeFails(e) ==
  /\ mpc[e] \in {"fetch", "tx", "wait"}
  /\ MergeReturns(e)
  /\ emitted' = {}
  /\ UNCHANGED <<now, jumps, aiEnabled, running, messages, threads, apc, aloc, lpc, lcooled>>

\* ------------------------------------------------------------ specifications
AssignmentStep(e) ==
  \/ AssignmentTick(e)
  \/ ClaimSelect(e)
  \/ ClaimUpdate(e)
  \/ ClaimFails(e)
  \/ FetchCandidates(e)
  \/ AIAssignAnswers(e)
  \/ AIAssignFails(e)
  \/ FindRevival(e)
  \/ AIRevivalAnswers(e)
  \/ AIRevivalFails(e)
  \/ ApplyExec(e)
  \/ ApplyCommit(e)
  \/ ApplyCommitBroadcastThrows(e)
  \/ ProcessingFails(e)
  \/ MarkFailed(e)
  \/ MarkFailedFails(e)
  \/ UnhandledRejectionExits(e)

LifecycleStep(e) ==
  \/ LifecycleTick(e)
  \/ LifecycleCool(e)
  \/ LifecycleArchive(e)
  \/ LifecycleFails(e)

MergeStep(e) ==
  \/ MergeTick(e)
  \/ MergeFetch(e)
  \/ MergeAIAnswers(e)
  \/ MergeAIFails(e)
  \/ MergeExec(e)
  \/ MergeFinish(e)
  \/ MergeFails(e)

\* One engine instance, its three loops interleaving, on a store that starts empty.
Next ==
  \/ \E content \in Contents : PostMessage(content, MaxMessages)
  \/ \E d \in ClockJumps : Advance(d)
  \/ \E e \in SingleEngine : AssignmentStep(e) \/ LifecycleStep(e) \/ MergeStep(e)

Spec == Init /\ [][Next]_vars

\* ------------------------------------------------------- later store states
\* Specifications that start from a store an earlier run has produced, so that
\* what needs a longer history stays within reach.  Each starting state is
\* reached under the specification named with it (the ...Reached predicates).
Assigned(at, content, t) ==
  [created_at |-> at, content |-> content, thread_id |-> t, assignment_status |-> "assigned"]

Idle ==
  /\ running = [e \in Engines |-> TRUE]
  /\ busy = [e \in Engines |-> [assignment |-> FALSE, lifecycle |-> FALSE, merge |-> FALSE]]
  /\ apc = [e \in Engines |-> "idle"]
  /\ aloc = [e \in Engines |-> NoLocals]
  /\ lpc = [e \in Engines |-> "idle"]
  /\ lcooled = [e \in Engines |-> {}]
  /\ mpc = [e \in Engines |-> "idle"]
  /\ mloc = [e \in Engines |-> NoMerge]

ArchivalMinutes == COOLING_TO_ARCHIVED_HOURS * 60

\* One thread, archived after its only message went idle (reached under Spec).
ArchivedMessages == <<Assigned(1, {"deploy"}, 1)>>
ArchivedThreads ==
  <<[NewThread({"deploy"}, 1) EXCEPT !.state = "archived",
                                     !.archived_at = ArchivalMinutes + 2]>>
ArchivedReached ==
  /\ messages = ArchivedMessages
  /\ threads = ArchivedThreads
  /\ now = ArchivalMinutes + 2
  /\ Idle

InitArchived ==
  /\ now = ArchivalMinutes + 2
  /\ jumps = 0
  /\ aiEnabled \in BOOLEAN
  /\ messages = ArchivedMessages
  /\ threads = ArchivedThreads
  /\ Idle
  /\ emitted = {}

\* Horizontal scale-out: the assignment loops of two engine instances draining
\* the same pending queue, on a store that already holds an archived thread.
NextScaleOut ==
  \/ \E content \in Contents : PostMessage(content, Len(ArchivedMessages) + MaxMessages)
  \/ \E d \in ClockJumps : Advance(d)
  \/ \E e \in Engines : AssignmentStep(e)

SpecScaleOut == InitArchived /\ [][NextScaleOut]_vars

\* The timers keep firing and a tick that has started runs on: each engine's
\* assignment loop takes a step whenever it has one to take.
SpecScaleOutLive == SpecScaleOut /\ \A e \in Engines : WF_vars(AssignmentStep(e))

\* ... and the store does not reject every claim: an engine that keeps arriving
\* at the SELECT or the UPDATE of claimPendingMessage gets it through.
SpecDrainLive ==
  /\ SpecScaleOutLive
  /\ \A e \in Engines : SF_vars(ClaimSelect(e)) /\ SF_vars(ClaimUpdate(e))

\* Two live threads on the same topic, the second created on the provider's
\* word a minute after the first (reached under Spec with the provider enabled).
DuplicateMessages == <<Assigned(1, {"deploy"}, 1), Assigned(2, {"deploy"}, 2)>>
DuplicateThreads == <<NewThread({"deploy"}, 1), NewThread({"deploy"}, 2)>>
DuplicatesReached ==
  /\ messages = DuplicateMessages
  /\ threads = DuplicateThreads
  /\ now = 2
  /\ aiEnabled
  /\ Idle

InitDuplicates ==
  /\ now = 2
  /\ jumps = 0
  /\ aiEnabled = TRUE
  /\ messages = DuplicateMessages
  /\ threads = DuplicateThreads
  /\ Idle
  /\ emitted = {}

NextDuplicates ==
  \/ \E content \in Contents : PostMessage(content, Len(DuplicateMessages) + MaxNewMessages)
  \/ \E d \in ClockJumps : Advance(d)
  \/ \E e \in SingleEngine : AssignmentStep(e) \/ LifecycleStep(e) \/ MergeStep(e)

SpecDuplicates == InitDuplicates /\ [][NextDuplicates]_vars

\* The duplicates after a merge that chose its pair while thread 1 was live and
\* committed after thread 1 had been archived and revived as thread 3: thread 1
\* is active again and still carries its continued_in_thread_id (reached under
\* SpecDuplicates).
RegressedMessages ==
  <<Assigned(1, {"deploy"}, 1), Assigned(2, {"deploy"}, 1), Assigned(2, {"deploy"}, 3)>>
RegressedThreads ==
  <<[NewThread({"deploy"}, 2) EXCEPT !.archived_at = ArchivalMinutes + 2,
                                     !.superseded_at = ArchivalMinutes + 2,
                                     !.continued_in_thread_id = 3],
    [NewThread({"deploy"}, 2) EXCEPT !.state = "superseded",
                                     !.superseded_at = ArchivalMinutes + 2,
                                     !.merged_into_thread_id = 1],
    [NewThread({"deploy"}, 2) EXCEPT !.revives_thread_id = 1]>>
RegressedReached ==
  /\ messages = RegressedMessages
  /\ threads = RegressedThreads
  /\ now = ArchivalMinutes + 2
  /\ Idle

\* The clock has moved to get here; it moves once more.
InitRegressed ==
  /\ now = ArchivalMinutes + 2
  /\ jumps = MaxJumps - 1
  /\ aiEnabled = TRUE
  /\ messages = RegressedMessages
  /\ threads = RegressedThreads
  /\ Idle
  /\ emitted = {}

NextRegressed ==
  \/ \E content \in Contents : PostMessage(content, Len(RegressedMessages) + MaxNewMessages)
  \/ \E d \in ClockJumps : Advance(d)
  \/ \E e \in SingleEngine : AssignmentStep(e) \/ LifecycleStep(e) \/ MergeStep(e)

SpecRegressed == InitRegressed /\ [][NextRegressed]_vars

\* A message overtaken by a later one: the first engine has claimed a message
\* and not yet fetched its candidates, and a minute later the second engine has
\* put a newer message into a new thread (reached under SpecScaleOut).
OvertakenMessages ==
  <<Assigned(1, {"deploy"}, 1),
    [created_at |-> ArchivalMinutes + 2, content |-> {"lunch"}, thread_id |-> NULL,
     assignment_status |-> "in_progress"],
    Assigned(ArchivalMinutes + 3, {"lunch"}, 2)>>
OvertakenThreads == Append(ArchivedThreads, NewThread({"lunch"}, ArchivalMinutes + 3))
Overtaken ==
  /\ now = ArchivalMinutes + 3
  /\ jumps = 1
  /\ aiEnabled = TRUE
  /\ running = [e \in Engines |-> TRUE]
  /\ messages = OvertakenMessages
  /\ threads = OvertakenThreads
  /\ busy = [e \in Engines |-> [assignment |-> e = "e1", lifecycle |-> FALSE, merge |-> FALSE]]
  /\ apc = [e \in Engines |-> IF e = "e1" THEN "fetch" ELSE "idle"]
  /\ aloc = [e \in Engines |-> IF e = "e1" THEN [NoLocals EXCEPT !.msg = 2] ELSE NoLocals]
  /\ lpc = [e \in Engines |-> "idle"]
  /\ lcooled = [e \in Engines |-> {}]
  /\ mpc = [e \in Engines |-> "idle"]
  /\ mloc = [e \in Engines |-> NoMerge]
OvertakenReached == Overtaken

InitOvertaken == Overtaken /\ emitted = {}

\* The first engine goes on, its lifecycle loop running beside its drain.
NextOvertaken ==
  \/ \E content \in Contents : PostMessage(content, Len(OvertakenMessages) + MaxNewMessages)
  \/ \E d \in ClockJumps : Advance(d)
  \/ \E e \in SingleEngine : AssignmentStep(e) \/ LifecycleStep(e)

SpecOvertaken == InitOvertaken /\ [][NextOvertaken]_vars

\* The quiet store: the duplicates with nothing posted and nothing pending, so
\* that no thread receives a further message; the lifecycle loop of the first
\* engine instance and the merge loops of both run on it.  No assignment
\* transaction holds a row, so the target update of a merge never waits.
NextQuiet ==
  \/ \E d \in ClockJumps : Advance(d)
  \/ \E e \in SingleEngine : LifecycleStep(e)
  \/ \E e \in Engines :
       \/ MergeTick(e)
       \/ MergeFetch(e)
       \/ MergeAIAnswers(e)
       \/ MergeAIFails(e)
       \/ MergeExec(e)
       \/ MergeFails(e)

SpecQuiet == InitDuplicates /\ [][NextQuiet]_vars

\* The lifecycle timers keep firing, a tick that has started runs on, and the
\* store does not reject every one of its UPDATEs.
SpecQuietLive ==
  /\ SpecQuiet
  /\ \A e \in SingleEngine : /\ WF_vars(LifecycleStep(e))
                             /\ SF_vars(LifecycleCool(e))
                             /\ SF_vars(LifecycleArchive(e))

\* ------------------------------------------------------------------ claims
Terminal == {"assigned", "failed"}
StatusSteps == {<<"pending", "in_progress">>, <<"in_progress", "assigned">>,
                <<"in_progress", "failed">>}

\* C1: every change of a message's assignment_status is pending -> in_progress,
\* in_progress -> assigned or in_progress -> failed; assigned and failed are
\* never left.
C1_StatusMonotonic ==
  [][\A m \in MsgIds :
       messages'[m].assignment_status # messages[m].assignment_status
       => <<messages[m].assignment_status, messages'[m].assignment_status>> \in StatusSteps]_vars

\* C3: a thread that is archived or superseded never becomes active or cooling.
C3_NoRegression ==
  [][\A t \in ThreadIds :
       threads[t].state \in {"archived", "superseded"}
       => threads'[t].state \in {"archived", "superseded"}]_vars

\* One lifecycle pass at time t: the two UPDATEs of lifecycleTick in their order.
LifecyclePass(ths, t) == ArchiveThreads(CoolThreads(ths, t), t)

\* C8: a lifecycle pass run again at the same time, with nothing in between,
\* changes no thread and has no row to broadcast.
C8_LifecycleIdempotent ==
  LET once == LifecyclePass(threads, now)
  IN /\ LifecyclePass(once, now) = once
     /\ Cooling(once, now) = {}
     /\ Archiving(CoolThreads(once, now), now) = {}

\* C8's case: a lifecycle tick has just finished a pass that archived a thread.
C8_Witness ==
  /\ \A e \in Engines : lpc[e] = "idle"
  /\ emitted # {}
  /\ \A ev \in emitted : ev[1] = "thread.updated"
  /\ \E ev \in emitted : threads[ev[2]].state = "archived"

\* C9: a message that is in_progress is eventually assigned or failed.
C9_ClaimedEventuallyFinal ==
  \A m \in 1..(Len(ArchivedMessages) + MaxMessages) :
    (m \in MsgIds /\ messages[m].assignment_status = "in_progress")
    ~> (m \in MsgIds /\ messages[m].assignment_status \in Terminal)

\* C10: a failed application changes no thread and no message, and the message
\* is then marked failed with thread_id still null.
C10_AllOrNothing ==
  [][\A e \in Engines :
       /\ (apc[e] \in {"apply", "commit"} /\ apc'[e] = "fail"
             /\ aloc'[e].failedAt \in {"apply", "commit"})
          => threads' = threads /\ messages' = messages
       /\ (apc[e] = "fail" /\ aloc[e].failedAt \in {"apply", "commit"} /\ apc'[e] # "fail")
          => /\ messages'[aloc[e].msg].assignment_status = "failed"
             /\ messages'[aloc[e].msg].thread_id = NULL]_vars

\* C2: no message is held by two processors: whatever one engine has claimed
\* and not finished, no other engine has claimed.
C2_ExclusiveClaim ==
  \A e1, e2 \in Engines :
    (e1 # e2 /\ aloc[e1].msg # NULL) => aloc[e1].msg # aloc[e2].msg

\* C2's case: both engines are past their claim, each processing its own message.
C2_Witness ==
  \A e \in Engines : aloc[e].msg # NULL /\ apc[e] \notin {"idle", "claim", "claimLocked"}

\* C4: when a merge commits, the source's messages point at the target, the
\* source is superseded with merged_into_thread_id = target, and the target's
\* last_message_at is the greatest created_at of the messages now pointing at it.
C4_MergePostcondition ==
  [][\A e \in Engines :
       (mpc[e] \in {"tx", "wait"} /\ mpc'[e] = "idle" /\ threads' # threads)
       => LET source == mloc[e].source
              target == mloc[e].target
          IN /\ \A m \in MsgIds : messages[m].thread_id = source
                                  => messages'[m].thread_id = target
             /\ threads'[source].state = "superseded"
             /\ threads'[source].merged_into_thread_id = target
             /\ threads'[target].last_message_at =
                  SetMax({messages'[m].created_at : m \in MessagesOf(messages', target)})]_vars

\* C5: N.revives_thread_id = O exactly when O.continued_in_thread_id = N.
C5_RevivalLinkBidirectional ==
  \A o, n \in ThreadIds :
    threads[n].revives_thread_id = o <=> threads[o].continued_in_thread_id = n

\* C6: a thread's last_message_at is at least the created_at of every message
\* pointing at it.
C6_LastMessageAtCovers ==
  \A m \in MsgIds :
    messages[m].thread_id # NULL
    => threads[messages[m].thread_id].last_message_at >= messages[m].created_at

\* C7: a thread is superseded exactly when exactly one of merged_into_thread_id
\* and continued_in_thread_id is set on it.
C7_SupersededHasOneLink ==
  \A t \in ThreadIds :
    threads[t].state = "superseded"
    <=> (threads[t].merged_into_thread_id # NULL) # (threads[t].continued_in_thread_id # NULL)

\* The merge transaction of engine e commits in this step.
MergeCommitted(e) ==
  /\ mpc[e] \in {"tx", "wait"}
  /\ mpc'[e] = "idle"
  /\ threads' # threads

\* C11: when a merge commits, its target is the thread of the pair with the
\* more recent last_message_at and its source the one with the older.
C11_TargetIsMoreRecent ==
  [][\A e \in Engines :
       MergeCommitted(e)
       => threads[mloc[e].target].last_message_at >= threads[mloc[e].source].last_message_at]_vars

\* The provider's merge decision is accepted: shouldMerge with confidence of at
\* least 0.6 and both ids within the pair.
MergeAnswerAccepted(shouldMerge, confidence, sourceThreadId, targetThreadId, first, second) ==
  /\ shouldMerge
  /\ confidence >= MergeConfidence
  /\ sourceThreadId \in {first, second}
  /\ targetThreadId \in {first, second}

\* This step is what mergeTick does with the given answer of ai.decideMerge.
MergeAnswered(e, shouldMerge, confidence, sourceThreadId, targetThreadId) ==
  /\ mpc[e] = "ai"
  /\ emitted' = {}
  /\ Resolve(e, shouldMerge /\ confidence >= MergeConfidence, sourceThreadId,
             targetThreadId, mloc[e].first, mloc[e].second, mloc[e].swap)

\* C12: on a provider answer that is not accepted the tick does what the
\* heuristic says: merge exactly when the pair's score is at least 0.78, with
\* the pair's own source and target.
C12_RejectedAnswerUsesHeuristic ==
  [][\A e \in Engines :
       (mpc[e] = "ai" /\ mpc'[e] # "ai")
       => \A shouldMerge \in BOOLEAN, confidence \in Confidences,
             sourceThreadId \in 0..Len(threads), targetThreadId \in 0..Len(threads) :
            (/\ MergeAnswered(e, shouldMerge, confidence, sourceThreadId, targetThreadId)
             /\ ~MergeAnswerAccepted(shouldMerge, confidence, sourceThreadId, targetThreadId,
                                     mloc[e].first, mloc[e].second))
            => Resolve(e, mloc[e].heuristic, mloc[e].first, mloc[e].second,
                       mloc[e].first, mloc[e].second, mloc[e].swap)]_vars

\* C13: a merge the provider was asked about runs on the two distinct threads
\* of the selected pair, whatever ids the provider named, and when it commits
\* no other thread changes and messages move to the target only.
C13_MergeWithinPair ==
  [][\A e \in Engines :
       /\ (mpc[e] = "ai" /\ mpc'[e] = "tx")
          => /\ {mloc'[e].source, mloc'[e].target} = {mloc[e].first, mloc[e].second}
             /\ mloc'[e].source # mloc'[e].target
       /\ MergeCommitted(e)
          => /\ mloc[e].source # mloc[e].target
             /\ \A t \in ThreadIds \ {mloc[e].source, mloc[e].target} :
                  threads'[t] = threads[t]
             /\ \A m \in MsgIds : messages'[m].thread_id # messages[m].thread_id
                                  => messages'[m].thread_id = mloc[e].target]_vars

\* C13's case: with the provider enabled, a merge has just committed while a
\* third thread outside the pair was live, and that thread has no message of
\* the pair's.
C13_Witness ==
  /\ aiEnabled
  /\ \E s, t \in ThreadIds : Event("thread.merged", s, t, "") \in emitted
  /\ \E o \in Live(threads) :
       /\ \A s, t \in ThreadIds : Event("thread.merged", s, t, "") \in emitted => o \notin {s, t}
       /\ threads[o].merged_into_thread_id = NULL
       /\ Cardinality(MessagesOf(messages, o)) = 1

\* C14: when a provider call fails, the decision is the heuristic's: the one
\* fallbackAssignment, the heuristic half of findRevivalSource or the pair's
\* score gives on the candidates already fetched; the message is not marked
\* failed and the tick goes on.
C14_ProviderFailureFallsBack ==
  [][\A e \in Engines :
       /\ (apc[e] = "aiAssign" /\ apc'[e] # "aiAssign"
             /\ emitted' = {FallbackLogged("decideAssignment")})
          => /\ aloc'[e].threadId = aloc[e].heuristic
             /\ aloc'[e].action = IF aloc[e].heuristic = NULL THEN "create" ELSE "assign"
             /\ apc'[e] = IF aloc[e].heuristic = NULL THEN "revival" ELSE "apply"
             /\ messages' = messages /\ busy' = busy
       /\ (apc[e] = "aiRevival" /\ apc'[e] # "aiRevival"
             /\ emitted' = {FallbackLogged("decideRevivalLink")})
          => /\ aloc'[e].revival = aloc[e].heuristic
             /\ apc'[e] = "apply"
             /\ messages' = messages /\ busy' = busy
       /\ (mpc[e] = "ai" /\ mpc'[e] # "ai" /\ emitted' = {FallbackLogged("decideMerge")})
          => Resolve(e, mloc[e].heuristic, mloc[e].first, mloc[e].second,
                     mloc[e].first, mloc[e].second, mloc[e].swap)]_vars

\* C14's case: ai.decideAssignment has just failed and the message goes to the
\* thread fallbackAssignment matched.
C14_Witness ==
  /\ emitted = {FallbackLogged("decideAssignment")}
  /\ \E e \in Engines : /\ apc[e] = "apply"
                        /\ aloc[e].action = "assign"
                        /\ messages[aloc[e].msg].assignment_status = "in_progress"

\* The Jaccard scores of content against the candidates, as fallbackAssignment
\* computes them.
AssignScores(content, cands) ==
  [i \in 1..Len(cands) |->
     jaccard(content, ThreadText(messages, threads, cands[i], AssignExcerptLimit))]

\* C15: for the message being assigned and every candidate list the store can
\* return for it, fallbackAssignment assigns to the first candidate whose score
\* is maximal when that score is at least 0.26, and creates otherwise.
C15_HeuristicPicksFirstMaximum ==
  \A e \in Engines :
    apc[e] = "fetch" =>
    \A cands \in RankedOrders(threads, Live(threads), MAX_ACTIVE_THREAD_CANDIDATES) :
      LET content == messages[aloc[e].msg].content
          scores == AssignScores(content, cands)
          picked == fallbackAssignment(content, cands)
          maximal == {i \in 1..Len(cands) :
                        \A j \in 1..Len(cands) : ~ScoreGreater(scores[j], scores[i])}
          first == CHOOSE i \in maximal : \A j \in maximal : i <= j
      IN IF maximal # {} /\ ScoreAtLeast(scores[first], AssignSimilarity)
         THEN picked = cands[first]
         ELSE picked = NULL

\* C15's case: ai.decideAssignment failed, two candidates scored the same
\* maximum of at least 0.26, and the message goes to the first of them.
C15_Witness ==
  /\ emitted = {FallbackLogged("decideAssignment")}
  /\ \E e \in Engines :
       /\ apc[e] = "apply"
       /\ \E cands \in RankedOrders(threads, Live(threads), MAX_ACTIVE_THREAD_CANDIDATES) :
            LET scores == AssignScores(messages[aloc[e].msg].content, cands)
            IN /\ Len(cands) >= 2
               /\ aloc[e].threadId = cands[1]
               /\ scores[1] = scores[2]
               /\ ScoreAtLeast(scores[1], AssignSimilarity)

\* This step is what processSinglePendingMessage does with the given answer of
\* ai.decideAssignment.
AssignAnswered(e, action, threadId, confidence) ==
  /\ apc[e] = "aiAssign"
  /\ apc'[e] # "aiAssign"
  /\ emitted' = {}
  /\ aloc'[e].threadId = normalizeAssignmentDecision(action, threadId, confidence,
                                                     aloc[e].offered)

\* The transaction of applyAssignment of engine e commits in this step.
ApplyCommitted(e) ==
  /\ apc[e] = "commit"
  /\ messages[aloc[e].msg].assignment_status = "in_progress"
  /\ messages'[aloc[e].msg].assignment_status = "assigned"

\* C16: a provider answer becomes an assign only to a thread that was offered,
\* and an answer that is not an assign to an offered thread with confidence of
\* at least 0.45 becomes a create; a create puts the message into a thread
\* inserted by the same transaction, an assign into the thread decided.
C16_AssignOnlyToOffered ==
  [][\A e \in Engines :
       /\ (apc[e] = "aiAssign" /\ apc'[e] # "aiAssign")
          => \A action \in {"assign", "create"}, threadId \in 0..Len(threads),
                confidence \in Confidences :
               AssignAnswered(e, action, threadId, confidence)
               => /\ aloc'[e].action = "assign"
                     => /\ aloc'[e].threadId \in aloc[e].offered
                        /\ aloc'[e].threadId = threadId
                  /\ ~(/\ action = "assign"
                       /\ threadId # NULL
                       /\ threadId \in aloc[e].offered
                       /\ confidence >= AssignConfidence)
                     => /\ aloc'[e].action = "create"
                        /\ aloc'[e].threadId = NULL
       /\ ApplyCommitted(e)
          => IF aloc[e].action = "create"
             THEN /\ Len(threads') = Len(threads) + 1
                  /\ messages'[aloc[e].msg].thread_id = Len(threads')
             ELSE /\ Len(threads') = Len(threads)
                  /\ messages'[aloc[e].msg].thread_id = aloc[e].threadId]_vars

\* C16's case: the provider was asked about a message that fallbackAssignment
\* would attach to a live thread, and the message is on its way to a new thread.
C16_Witness ==
  /\ aiEnabled
  /\ \E e \in Engines :
       /\ apc[e] = "revival"
       /\ aloc[e].action = "create"
       /\ Live(threads) # {}
       /\ \A cands \in RankedOrders(threads, Live(threads), MAX_ACTIVE_THREAD_CANDIDATES) :
            fallbackAssignment(messages[aloc[e].msg].content, cands) # NULL

\* C17: when ai.decideRevivalLink answers, a revival source is recorded only if
\* the answer has confidence of at least 0.62 and names an offered archived
\* thread, and then it is the thread named.
C17_RevivalOnlyOnAcceptedAnswer ==
  [][\A e \in Engines :
       (apc[e] = "aiRevival" /\ apc'[e] # "aiRevival" /\ emitted' = {})
       => \A archivedThreadId \in 0..Len(threads), confidence \in Confidences :
            aloc'[e].revival = acceptRevival(archivedThreadId, confidence,
                                             aloc[e].offered, aloc[e].heuristic)
            => (aloc'[e].revival # NULL
                => /\ confidence >= RevivalConfidence
                   /\ archivedThreadId \in aloc[e].offered
                   /\ aloc'[e].revival = archivedThreadId)]_vars

\* C18: an assign decision never reaches findRevivalSource and carries no
\* revival source, and when it commits no thread is inserted, no revival link
\* changes and no archived thread leaves archived.
C18_RevivalOnlyForCreate ==
  [][\A e \in Engines :
       /\ aloc'[e].action = "assign"
          => /\ apc'[e] \notin {"revival", "aiRevival"}
             /\ aloc'[e].revival = NULL
       /\ (ApplyCommitted(e) /\ aloc[e].action = "assign")
          => /\ Len(threads') = Len(threads)
             /\ \A t \in ThreadIds :
                  /\ threads'[t].revives_thread_id = threads[t].revives_thread_id
                  /\ threads'[t].continued_in_thread_id = threads[t].continued_in_thread_id
                  /\ threads[t].state = "archived" => threads'[t].state = "archived"]_vars

\* C18's case: an assign to a live thread is about to commit while an archived
\* thread with the message's words exists.
C18_Witness ==
  \E e \in Engines :
    /\ apc[e] = "commit"
    /\ aloc[e].action = "assign"
    /\ \E t \in Archived(threads) :
         ScoreAtLeast(jaccard(messages[aloc[e].msg].content,
                              ThreadText(messages, threads, t, RevivalExcerptLimit)),
                      RevivalSimilarity)

\* C19: a firing starts a tick only when no tick of that loop is running, and
\* each busy flag is set exactly while its loop's tick runs.
C19_OneTickPerLoop ==
  [][\A e \in Engines :
       /\ AssignmentTick(e) => apc[e] = "idle"
       /\ LifecycleTick(e) => lpc[e] = "idle"
       /\ MergeTick(e) => mpc[e] = "idle"
       /\ busy'[e].assignment = (apc'[e] # "idle")
       /\ busy'[e].lifecycle = (lpc'[e] # "idle")
       /\ busy'[e].merge = (mpc'[e] # "idle")]_vars

\* C19's case: all three loops of an engine are in the middle of a tick, so a
\* firing of any of its timers finds the loop busy.
C19_Witness ==
  \E e \in Engines :
    /\ busy[e].assignment /\ busy[e].lifecycle /\ busy[e].merge
    /\ apc[e] = "commit" /\ lpc[e] = "archive" /\ mpc[e] = "tx"

\* C20: while a provider call of a tick is outstanding, that tick holds no open
\* transaction: the claim has committed, applyAssignment and the merge
\* transaction have not begun.
C20_NoProviderCallInTransaction ==
  \A e \in Engines :
    /\ apc[e] \in {"aiAssign", "aiRevival"}
       => /\ ClaimLocks(e) = {}
          /\ AssignLocks(e) = {}
          /\ aloc[e].lock = NULL
          /\ messages[aloc[e].msg].assignment_status = "in_progress"
    /\ mpc[e] = "ai"
       => /\ MergeLocks(e) = {}
          /\ mloc[e].source = NULL /\ mloc[e].target = NULL

\* C20 as stated, every provider call of a tick before the tick's BEGIN: while
\* a provider call is outstanding the tick has begun no transaction, neither
\* the claim's nor the merge's.
C20_CallsBeforeAnyBegin ==
  \A e \in Engines :
    /\ apc[e] \in {"aiAssign", "aiRevival"} => aloc[e].msg = NULL
    /\ mpc[e] = "ai" => mloc[e].source = NULL

\* C20's case: ai.decideRevivalLink and ai.decideMerge are both outstanding.
C20_Witness ==
  \E e \in Engines : apc[e] = "aiRevival" /\ mpc[e] = "ai"

\* A pending message is eventually claimed.
PendingEventuallyClaimed ==
  \A m \in 1..(Len(ArchivedMessages) + MaxMessages) :
    (m \in MsgIds /\ messages[m].assignment_status = "pending")
    ~> (m \in MsgIds /\ messages[m].assignment_status # "pending")

\* The catch of processSinglePendingMessage is left after a failed application.
ApplicationFailureHandled(e) ==
  /\ apc[e] = "fail"
  /\ aloc[e].failedAt \in {"apply", "commit"}
  /\ apc'[e] # "fail"

\* C21: every pending message is eventually claimed, and after a failed
\* application the message is marked failed and the same drain goes on to its
\* next claim.
C21_FailuresNeverBlockQueue ==
  /\ PendingEventuallyClaimed
  /\ [][\A e \in Engines :
          ApplicationFailureHandled(e)
          => /\ messages'[aloc[e].msg].assignment_status = "failed"
             /\ apc'[e] = "claim"
             /\ busy'[e].assignment]_vars

\* The lifecycle tick of engine e ends in this step.
LifecycleTickEnds(e) == lpc[e] \in {"cool", "archive"} /\ lpc'[e] = "idle"

\* C22: when a lifecycle tick ends, every thread it moved to cooling and every
\* thread it moved to archived has a thread.updated broadcast of that tick.
C22_LifecycleNotifiesEveryMove ==
  [][\A e \in Engines :
       LifecycleTickEnds(e)
       => \A t \in ThreadIds :
            (t \in lcooled[e] \/ threads'[t].state # threads[t].state)
            => Event("thread.updated", t, NULL, "") \in emitted']_vars

\* C23: a thread's archived_at and superseded_at, once set, keep their value.
C23_StampsSetOnce ==
  [][\A t \in ThreadIds :
       /\ threads[t].archived_at # NULL
          => threads'[t].archived_at = threads[t].archived_at
       /\ threads[t].superseded_at # NULL
          => threads'[t].superseded_at = threads[t].superseded_at]_vars

\* C24: a thread_id that is set changes only when a merge commits, and then
\* from that merge's source to its target.
C24_ThreadIdFixedButForMerge ==
  [][\A m \in MsgIds :
       (messages[m].thread_id # NULL /\ messages'[m].thread_id # messages[m].thread_id)
       => \E e \in Engines : /\ MergeCommitted(e)
                             /\ messages[m].thread_id = mloc[e].source
                             /\ messages'[m].thread_id = mloc[e].target]_vars

\* C24's case: a merge has just committed and moved the source's messages, and
\* a message whose assignment committed and was then marked failed (its
\* broadcast threw) kept its thread_id.
C24_Witness ==
  /\ \E s, t \in ThreadIds :
       /\ Event("thread.merged", s, t, "") \in emitted
       /\ MessagesOf(messages, s) = {}
       /\ Cardinality(MessagesOf(messages, t)) >= 2
  /\ \E m \in MsgIds : /\ messages[m].assignment_status = "failed"
                        /\ messages[m].thread_id # NULL

\* C25: with no active or cooling thread to offer, the decision is create and
\* ai.decideAssignment is not called; a create that commits inserts exactly one
\* thread, active, with last_message_at the message's created_at, and puts the
\* message into it; no other step inserts a thread.
C25_EmptyCandidatesCreate ==
  [][/\ \A e \in Engines :
          /\ (apc[e] = "fetch" /\ Live(threads) = {} /\ apc'[e] \notin {"fetch", "fail"})
             => /\ apc'[e] = "revival"
                /\ aloc'[e].action = "create"
                /\ aloc'[e].threadId = NULL
                /\ emitted' = {}
          /\ (ApplyCommitted(e) /\ aloc[e].action = "create")
             => /\ Len(threads') = Len(threads) + 1
                /\ threads'[Len(threads')].state = "active"
                /\ threads'[Len(threads')].last_message_at = messages[aloc[e].msg].created_at
                /\ messages'[aloc[e].msg].thread_id = Len(threads')
     /\ Len(threads') # Len(threads)
        => \E e \in Engines : ApplyCommitted(e) /\ aloc[e].action = "create"]_vars

\* C25's case: with the provider enabled, a thread has just been created for
\* a message that found no live thread; it is the only live thread.
C25_Witness ==
  /\ aiEnabled
  /\ \E t \in ThreadIds :
       /\ Event("thread.created", t, NULL, "") \in emitted
       /\ Live(threads) = {t}
       /\ \E m \in MsgIds : /\ messages[m].thread_id = t
                             /\ threads[t].last_message_at = messages[m].created_at

\* The merge transaction of engine e finds its source neither active nor cooling.
MergeSourceGone(e) ==
  /\ mpc[e] = "tx"
  /\ threads[mloc[e].source].state \notin {"active", "cooling"}

\* C26: a merge transaction whose source is no longer active or cooling changes
\* no thread and no message and broadcasts nothing, and the tick ends.
C26_MergeNoOpWhenSourceGone ==
  [][\A e \in Engines :
       (MergeSourceGone(e) /\ mpc'[e] # "tx")
       => /\ threads' = threads
          /\ messages' = messages
          /\ emitted' = {}
          /\ mpc'[e] = "idle"]_vars

\* C26's case: the merge transaction is about to run, its source row is free
\* and has been archived since the pair was chosen, its target is still live.
C26_Witness ==
  \E e \in Engines :
    /\ MergeSourceGone(e)
    /\ mloc[e].source \notin LockedForMerge(e)
    /\ threads[mloc[e].source].state = "archived"
    /\ mloc[e].target \in Live(threads)

\* C27: a create whose revival source is not archived when the transaction
\* runs takes no row for the link, and when it commits the new thread is active
\* without revives_thread_id, the message is assigned to it, and every thread
\* that existed is unchanged.
C27_RevivalLinkDroppedWhenSourceMoved ==
  [][\A e \in Engines :
       /\ (/\ apc[e] = "apply" /\ apc'[e] = "commit"
           /\ aloc[e].action = "create" /\ aloc[e].revival # NULL
           /\ threads[aloc[e].revival].state # "archived")
          => aloc'[e].lock = NULL
       /\ (/\ ApplyCommitted(e)
           /\ aloc[e].action = "create" /\ aloc[e].revival # NULL /\ aloc[e].lock = NULL)
          => /\ Len(threads') = Len(threads) + 1
             /\ threads'[Len(threads')].state = "active"
             /\ threads'[Len(threads')].revives_thread_id = NULL
             /\ messages'[aloc[e].msg].thread_id = Len(threads')
             /\ messages'[aloc[e].msg].assignment_status = "assigned"
             /\ \A t \in ThreadIds : threads'[t] = threads[t]]_vars

\* C27's case: a create is about to commit without its link, its revival
\* source having been superseded by another assignment's revival since it was
\* chosen.
C27_Witness ==
  \E e \in Engines :
    /\ apc[e] = "commit"
    /\ aloc[e].action = "create"
    /\ aloc[e].revival # NULL
    /\ aloc[e].lock = NULL
    /\ threads[aloc[e].revival].state = "superseded"
    /\ threads[aloc[e].revival].continued_in_thread_id # NULL

\* A step of the lifecycle tick of engine e.
LifecycleStepped(e) == lpc'[e] # lpc[e]

\* C28: a step of a lifecycle tick changes no message, inserts no thread,
\* changes only threads that were active or cooling, and changes no thread's
\* last_message_at or link fields.
C28_LifecycleFrame ==
  [][\A e \in Engines :
       LifecycleStepped(e)
       => /\ messages' = messages
          /\ Len(threads') = Len(threads)
          /\ \A t \in ThreadIds :
               /\ threads'[t] # threads[t] => threads[t].state \in {"active", "cooling"}
               /\ threads'[t].last_message_at = threads[t].last_message_at
               /\ threads'[t].revives_thread_id = threads[t].revives_thread_id
               /\ threads'[t].continued_in_thread_id = threads[t].continued_in_thread_id
               /\ threads'[t].merged_into_thread_id = threads[t].merged_into_thread_id]_vars

\* C28's case: a lifecycle tick has just archived a thread while a superseded
\* thread older than the archival threshold stood beside it.
C28_Witness ==
  /\ \E ev \in emitted : ev[1] = "thread.updated" /\ threads[ev[2]].state = "archived"
  /\ \A ev \in emitted : ev[1] = "thread.updated" /\ threads[ev[2]].state # "superseded"
  /\ \E t \in ThreadIds : /\ threads[t].state = "superseded"
                           /\ t \in ArchivingAnyState(threads, now)

\* C29: an assign that commits on a thread that is active or cooling leaves
\* the thread active with last_message_at the greater of its previous value
\* and the message's created_at.
C29_AssignReopensAndKeepsMax ==
  [][\A e \in Engines :
       (/\ ApplyCommitted(e)
        /\ aloc[e].action = "assign"
        /\ threads[aloc[e].threadId].state \in {"active", "cooling"})
       => LET t == aloc[e].threadId
              createdAt == messages[aloc[e].msg].created_at
          IN /\ threads'[t].state = "active"
             /\ threads'[t].last_message_at = Max(threads[t].last_message_at, createdAt)
             /\ threads'[t].last_message_at >= threads[t].last_message_at]_vars

\* C29's case: an assign is about to commit on a cooling thread whose
\* last_message_at is later than the message's created_at.
C29_Witness ==
  \E e \in Engines :
    /\ apc[e] = "commit"
    /\ aloc[e].action = "assign"
    /\ threads[aloc[e].threadId].state = "cooling"
    /\ threads[aloc[e].threadId].last_message_at > messages[aloc[e].msg].created_at

\* The pending messages.
Pending == {m \in MsgIds : messages[m].assignment_status = "pending"}

\* C30: a claim picks a pending message that no other claim in flight has
\* locked and that is no newer than any other such message (the oldest pending
\* message of all when no other claim is in flight, as for a single engine);
\* its UPDATE moves that message, still pending, to in_progress and changes
\* nothing else; a claim that returns none or fails changes nothing.
C30_ClaimsOldestUnlocked ==
  [][\A e \in Engines :
       /\ (apc[e] = "claim" /\ apc'[e] = "claimLocked")
          => LET m == aloc'[e].msg
             IN /\ m \in Pending \ LockedMessages(e)
                /\ \A o \in Pending \ LockedMessages(e) :
                     messages[m].created_at <= messages[o].created_at
                /\ LockedMessages(e) = {}
                   => \A o \in Pending : messages[m].created_at <= messages[o].created_at
                /\ messages' = messages
       /\ (apc[e] = "claimLocked" /\ apc'[e] = "fetch")
          => /\ messages[aloc[e].msg].assignment_status = "pending"
             /\ messages' = [messages EXCEPT ![aloc[e].msg].assignment_status = "in_progress"]
             /\ aloc'[e].msg = aloc[e].msg
             /\ threads' = threads
       /\ (apc[e] \in {"claim", "claimLocked"} /\ apc'[e] = "idle")
          => /\ messages' = messages
             /\ threads' = threads
             /\ aloc'[e].msg = NULL]_vars

\* C30's case: one engine has locked the oldest pending message and the other
\* has claimed a newer one past it.
C30_Witness ==
  \E e1, e2 \in Engines :
    /\ apc[e1] = "claimLocked"
    /\ apc[e2] = "fetch"
    /\ messages[aloc[e1].msg].assignment_status = "pending"
    /\ messages[aloc[e2].msg].assignment_status = "in_progress"
    /\ messages[aloc[e1].msg].created_at < messages[aloc[e2].msg].created_at

\* The transaction of engine e's assignment or merge ends without a commit in
\* this step: it fails and is rolled back, or finds its source gone.
RolledBack(e) ==
  \/ apc[e] \in {"apply", "commit"} /\ apc'[e] = "fail" /\ aloc'[e].failedAt = apc[e]
  \/ mpc[e] \in {"tx", "wait"} /\ mpc'[e] = "idle" /\ threads' = threads

\* C31: a transition notification is broadcast only in a step that commits
\* the change it reports (the lifecycle's after its UPDATEs), and a step that
\* rolls back or finds nothing to do broadcasts nothing.
C31_NotifiedAfterCommit ==
  [][/\ \A ev \in emitted' :
          /\ ev[1] = "thread.created"
             => \E e \in Engines : /\ ApplyCommitted(e)
                                   /\ aloc[e].action = "create"
                                   /\ ev[2] = Len(threads')
                                   /\ ev[2] \notin ThreadIds
          /\ (ev[1] = "message.updated" /\ ev[4] = "assigned")
             => \E e \in Engines : /\ ApplyCommitted(e)
                                   /\ ev[2] = aloc[e].msg
                                   /\ messages'[ev[2]].thread_id = ev[3]
          /\ ev[1] = "thread.merged"
             => \E e \in Engines : /\ MergeCommitted(e)
                                   /\ ev[2] = mloc[e].source /\ ev[3] = mloc[e].target
                                   /\ threads'[ev[2]].state = "superseded"
                                   /\ threads'[ev[2]].merged_into_thread_id = ev[3]
          /\ ev[1] = "thread.updated"
             => \E e \in Engines :
                  \/ ApplyCommitted(e) /\ ev[2] \in {Destination(e), aloc[e].lock}
                  \/ MergeCommitted(e) /\ ev[2] \in {mloc[e].source, mloc[e].target}
                  \/ /\ LifecycleTickEnds(e)
                     /\ ev[2] \in lcooled[e] \/ threads'[ev[2]].state # threads[ev[2]].state
     /\ \A e \in Engines : RolledBack(e) => emitted' = {}]_vars

\* C31's case: a merge has just committed and its three broadcasts are out,
\* the source superseded and pointing at the target.
C31_Witness ==
  \E s, t \in ThreadIds :
    /\ {Event("thread.merged", s, t, ""), Event("thread.updated", s, NULL, ""),
        Event("thread.updated", t, NULL, "")} \subseteq emitted
    /\ threads[s].state = "superseded"
    /\ threads[s].merged_into_thread_id = t
    /\ threads[t].state = "active"

\* C32: a message has a thread_id exactly when it is assigned.
C32_ThreadIdIffAssigned ==
  \A m \in MsgIds :
    messages[m].thread_id # NULL <=> messages[m].assignment_status = "assigned"

\* C33: no message points at a thread that a merge has superseded.
C33_NoMessageOnMergedThread ==
  \A m \in MsgIds :
    messages[m].thread_id # NULL
    => threads[messages[m].thread_id].merged_into_thread_id = NULL

\* C34: when an assign commits, the thread the message is attached to is
\* active.
C34_AssignedThreadIsActive ==
  [][\A e \in Engines :
       (ApplyCommitted(e) /\ aloc[e].action = "assign")
       => threads'[aloc[e].threadId].state = "active"]_vars

\* C35: each busy flag is clear whenever its loop's tick is not running, and
\* a loop whose tick is not running starts one at its next firing.
C35_LoopsRunAgain ==
  \A e \in Engines :
    /\ busy[e].assignment = (apc[e] # "idle")
    /\ busy[e].lifecycle = (lpc[e] # "idle")
    /\ busy[e].merge = (mpc[e] # "idle")
    /\ apc[e] = "idle" => ENABLED AssignmentTick(e)
    /\ lpc[e] = "idle" => ENABLED LifecycleTick(e)
    /\ mpc[e] = "idle" => ENABLED MergeTick(e)

\* Every message in the store is older than both thresholds.
PastBothThresholds ==
  \A m \in MsgIds :
    /\ messages[m].created_at < now - ACTIVE_TO_COOLING_MINUTES
    /\ messages[m].created_at < now - COOLING_TO_ARCHIVED_HOURS * 60

\* C36: on a store that receives no further messages, once time is past both
\* thresholds a thread that is active or cooling becomes archived, unless a
\* merge takes it as its source; a merge that forces it back to active starts
\* this over.
C36_LiveEventuallyArchived ==
  \A t \in 1..Len(DuplicateThreads) :
    (threads[t].state \in {"active", "cooling"} /\ PastBothThresholds)
    ~> (threads[t].state \in {"archived", "superseded"})

\* A thread archived again after a merge into it, committed when time was
\* past both thresholds, had made it active after its first archival.
C36_Witness ==
  \E t \in ThreadIds, s \in ThreadIds :
    /\ threads[t].state = "archived"
    /\ threads[s].state = "superseded"
    /\ threads[s].merged_into_thread_id = t
    /\ threads[t].archived_at < threads[s].superseded_at
    /\ \A m \in MsgIds :
         messages[m].created_at < threads[s].superseded_at - COOLING_TO_ARCHIVED_HOURS * 60

\* C37: no two threads have revives_thread_id pointing at the same old thread.
C37_RevivalOneToOne ==
  \A a \in ThreadIds, b \in ThreadIds :
    (a # b /\ threads[a].revives_thread_id # NULL)
    => threads[a].revives_thread_id # threads[b].revives_thread_id

====
